---- MODULE Spec2Model ----
(***************************************************************************)
(* Control plane of the benchmarking orchestrator: the in-memory store     *)
(* (workers, campaigns, jobs, results), the broker queues, the result      *)
(* processor, the timeout/retry engine and the worker agent's job loop.    *)
(*                                                                         *)
(* Time is the integer second returned by time.time(); it starts at 1 so   *)
(* that 0 can stand for an absent (None / falsy) timestamp.  Strings that  *)
(* the code builds by formatting are kept as tuples: the campaign id       *)
(* "campaign-<t>" is the integer t, the job id "<campaign_id>-job-<i>" is  *)
(* <<t, i>>, the queue "jobs:<w>" is <<"jobs", w>> and the queue           *)
(* "jobs:capability:<u>" is <<"jobs:capability", u>>.                      *)
(***************************************************************************)
EXTENDS Integers, Sequences, FiniteSets, TLC

\* ---------------------------------------------------------------- bounds
MaxTime == 4
MaxCampaigns == 1
MaxJobs == 2
DefaultTimeout == 0
HeartbeatTimeout == 1
CheckInterval == 1
MaxChan == 1
MaxDelay == 3
MaxMultiplier == 3
MaxAttemptIndex == 3
MaxIncrements == 3
MaxHistory == 4
MaxSubmissions == 2
MaxLoopThreads == 2

\* ------------------------------------------------------ program constants
MaxAttempts == 3

None == "None"
NoTime == 0
\* The absent values of the tuple- and integer-valued ids.
NoCampaign == 0
NoJob == <<0, 0>>
NoQueue == <<"none", "none">>
Idle == [job_id |-> NoJob, campaign_id |-> NoCampaign, started |-> FALSE]
NoResponse == [op |-> "none"]

\* The hosts that may register, and those of them whose worker agent runs
\* its job loop.
Workers == {"w1", "w2"}
Agents == {"w1"}
ComputeUnits == {"CPU"}
\* The compute units some worker host offers.
AllComputeUnits == {"CPU", "DML"}

WORKER_STATUS_VALUES == {"active", "busy", "cleanup", "faulty"}
ResultStatus == {"Complete", "Failed"}
JOB_TIMEOUT == "job_timeout"

\* The capability list a worker host reports (device_info.get_compute_units).
get_compute_units(w) == IF w = "w2" THEN <<"CPU", "DML">> ELSE <<"CPU">>

\* The job entries a client may put in the body of POST /campaigns.
JobSpecInput == [compute_unit : ComputeUnits, worker_id : {None}]

VARIABLES
    now,            \* time.time(), whole seconds
    workers,        \* store.workers   : worker_id -> worker row
    campaigns,      \* store.campaigns : campaign_id -> campaign row
    jobs,           \* store.jobs      : job_id -> job row
    results,        \* store.results   : job_id -> result row
    queues,         \* broker job queues: queue name -> list of job ids
    resultsChan,    \* broker list 'results'
    retry_history,  \* RetryTracker.retry_history: job_id -> list of records
    holding,        \* per worker agent: the job it popped and has in hand
    last_heartbeat, \* HealthMonitor.last_heartbeat: worker_id -> time
    nSubmitted,     \* number of POST /campaigns requests served so far
    response,       \* the answer of the last call whose answer is observed
    next_check,     \* the time at which the health monitor's sleep ends
    disk,           \* the snapshot file of the store (persistence_file)
    lock,           \* InMemoryStore.lock: the thread that holds it
    threads,        \* per thread: its position inside a store operation
    sm,             \* a StateMachine object: state and transition_history
    loops           \* per background component: running flag and loop threads

vars == <<now, workers, campaigns, jobs, results, queues, resultsChan,
          retry_history, holding, last_heartbeat, nSubmitted, response, next_check,
          disk, lock, threads, sm, loops>>

QueueNames ==
    {<<"jobs", w>> : w \in Workers} \cup
    {<<"jobs:capability", u>> : u \in AllComputeUnits}

\* ------------------------------------------------------------ the broker
\* redis LPUSH: the new element becomes the head of the list.
lpush(q, x) == <<x>> \o q

\* RedisClient.push_job
push_job(qs, queue_name, job_id) ==
    [qs EXCEPT ![queue_name] = lpush(@, job_id)]

\* A pop that serves the last non-empty queue of the list.
RECURSIVE pop_job_from_last(_, _, _)
pop_job_from_last(qs, queue_names, k) ==
    IF k > Len(queue_names) THEN NoQueue
    ELSE LET later == pop_job_from_last(qs, queue_names, k + 1)
         IN IF later # NoQueue THEN later
            ELSE IF qs[queue_names[k]] # <<>> THEN queue_names[k]
            ELSE NoQueue

\* RedisClient.pop_job: RPOP from the first non-empty queue of the list.
RECURSIVE pop_job_from(_, _, _)
pop_job_from(qs, queue_names, k) ==
    IF k > Len(queue_names) THEN NoQueue
    ELSE IF Len(qs[queue_names[k]]) > 0 THEN queue_names[k]
    ELSE pop_job_from(qs, queue_names, k + 1)

\* ------------------------------------------------------------- the store
\* A status update that also stamps the row as registered anew.
update_worker_status_restamp(ws, worker_id, status, t) ==
    IF worker_id \in DOMAIN ws
    THEN [ws EXCEPT ![worker_id] = [@ EXCEPT !.status = status, !.last_seen = t,
                                             !.registered_at = t]]
    ELSE ws

\* InMemoryStore.update_worker_status
update_worker_status(ws, worker_id, status, t) ==
    IF worker_id \in DOMAIN ws
    THEN [ws EXCEPT ![worker_id] = [@ EXCEPT !.status = status, !.last_seen = t]]
    ELSE ws

\* InMemoryStore.register_worker: the row a new worker gets.
register_worker(worker_info, t) ==
    [status |-> "active", registered_at |-> t, last_seen |-> t,
     capabilities |-> worker_info.capabilities]

\* InMemoryStore.get_workers_by_capability, as the set of worker ids.
get_workers_by_capability(ws, compute_unit) ==
    {w \in DOMAIN ws :
        /\ \E k \in 1..Len(ws[w].capabilities) : ws[w].capabilities[k] = compute_unit
        /\ ws[w].status = "active"}

\* InMemoryStore.update_campaign_progress
update_campaign_progress(cs, campaign_id, status, increment_completed, increment_failed) ==
    IF campaign_id \in DOMAIN cs
    THEN [cs EXCEPT ![campaign_id] =
            [@ EXCEPT
               !.completed_jobs = IF increment_completed THEN @ + 1 ELSE @,
               !.failed_jobs = IF increment_failed THEN @ + 1 ELSE @,
               !.status = IF status # None THEN status ELSE @]]
    ELSE cs

\* InMemoryStore.update_job_status
update_job_status(js, job_id, status, worker_id, t) ==
    IF job_id \in DOMAIN js
    THEN [js EXCEPT ![job_id] =
            [@ EXCEPT
               !.status = status,
               !.started_at = IF status = "running" THEN t ELSE @,
               !.worker_id = IF status = "running" /\ worker_id # None
                             THEN worker_id ELSE @,
               !.completed_at = IF status \in {"complete", "failed", "cancelled"}
                                THEN t ELSE @]]
    ELSE js

\* InMemoryStore.create_job: the row a new job gets.  started_at,
\* completed_at and retry_after are keys the row does not have yet.
create_job(campaign_id, job_spec) ==
    [campaign_id |-> campaign_id,
     compute_unit |-> job_spec.compute_unit,
     worker_id |-> job_spec.worker_id,
     status |-> "pending",
     retry_count |-> 0,
     started_at |-> NoTime,
     completed_at |-> NoTime,
     retry_after |-> NoTime]

\* InMemoryStore.create_campaign: the row a new campaign gets.
create_campaign(total_jobs) ==
    [total_jobs |-> total_jobs,
     completed_jobs |-> 0,
     failed_jobs |-> 0,
     status |-> "running"]

\* --------------------------------------------------------- the dispatcher
\* A faulty variant of determine_queues that also names the capability queue
\* of a pinned job.
determine_queues_both(job_info) ==
    (IF job_info.worker_id # None THEN <<<<"jobs", job_info.worker_id>>>> ELSE <<>>)
    \o (IF job_info.compute_unit # None
        THEN <<<<"jobs:capability", job_info.compute_unit>>>> ELSE <<>>)

\* JobDispatcher.determine_queues
determine_queues(job_info) ==
    IF job_info.worker_id # None THEN <<<<"jobs", job_info.worker_id>>>>
    ELSE IF job_info.compute_unit # None
         THEN <<<<"jobs:capability", job_info.compute_unit>>>>
    ELSE <<>>

\* The loop of push_job_to_queues over the queue names from index k on.
RECURSIVE push_to_each(_, _, _, _)
push_to_each(qs, names, k, job_id) ==
    IF k > Len(names) THEN qs
    ELSE push_to_each(push_job(qs, names[k], job_id), names, k + 1, job_id)

\* JobDispatcher.push_job_to_queues: the queues after the call.
push_job_to_queues(qs, job_id, job_info) ==
    push_to_each(qs, determine_queues(job_info), 1, job_id)

\* JobDispatcher.push_job_to_queues: the value returned, with the broker
\* accepting every push.
push_job_to_queues_result(job_info) == determine_queues(job_info) # <<>>

\* JobDispatcher.get_worker_queue_priority
get_worker_queue_priority(worker_id, capabilities) ==
    <<<<"jobs", worker_id>>>> \o
    [k \in 1..Len(capabilities) |-> <<"jobs:capability", capabilities[k]>>]

\* ------------------------------------------------------ the retry manager
\* A faulty variant of get_attempt_count that forgets the initial attempt.
get_attempt_count_retries_only(rh, job_id) ==
    IF job_id \in DOMAIN rh THEN Len(rh[job_id]) ELSE 0

\* RetryTracker.get_attempt_count
get_attempt_count(rh, job_id) ==
    (IF job_id \in DOMAIN rh THEN Len(rh[job_id]) ELSE 0) + 1

\* A faulty variant of should_retry that admits attempt = max_attempts.
policy_should_retry_inclusive(attempt) == attempt <= MaxAttempts

\* RetryPolicy.should_retry
policy_should_retry(attempt) == attempt < MaxAttempts

\* RetryManager.should_retry
should_retry(rh, job_id) == policy_should_retry(get_attempt_count(rh, job_id))

\* The policy the orchestrator builds (orchestrator.py retry_policy), in
\* whole seconds.
retry_policy ==
    [max_attempts |-> MaxAttempts, initial_delay |-> 1, max_delay |-> 300,
     backoff_multiplier |-> 2, jitter |-> TRUE]

\* Python's min and ** on the non-negative integers.
min(a, b) == IF a <= b THEN a ELSE b

RECURSIVE pow(_, _)
pow(b, n) == IF n = 0 THEN 1 ELSE b * pow(b, n - 1)

\* RetryPolicy.get_delay.  jitter_amount is the value of
\* delay * 0.25 * (time.time() % 1), which is added only when the policy
\* has jitter.
get_delay(policy, attempt, jitter_amount) ==
    LET raw == IF attempt = 0 THEN policy.initial_delay
               ELSE policy.initial_delay * pow(policy.backoff_multiplier, attempt)
        delay == min(raw, policy.max_delay)
    IN IF policy.jitter THEN delay + jitter_amount ELSE delay

\* RetryManager.get_retry_delay
get_retry_delay(rh, job_id, policy, jitter_amount) ==
    get_delay(policy, get_attempt_count(rh, job_id) - 1, jitter_amount)

\* ExponentialBackoffCalculator.calculate_delay
calculate_delay(attempt, initial_delay, multiplier, max_delay) ==
    IF attempt = 0 THEN initial_delay
    ELSE min(initial_delay * pow(multiplier, attempt), max_delay)

\* RetryTracker.record_retry
record_retry(rh, job_id, reason, attempt, t) ==
    LET old == IF job_id \in DOMAIN rh THEN rh[job_id] ELSE <<>>
    IN (job_id :> Append(old, [timestamp |-> t, reason |-> reason,
                               attempt |-> attempt])) @@ rh

\* RetryManager.retry_job: the history after the call (unchanged on refusal).
retry_job(rh, job_id, reason, t) ==
    IF ~should_retry(rh, job_id) THEN rh
    ELSE record_retry(rh, job_id, reason, get_attempt_count(rh, job_id), t)

\* ------------------------------------------------------- persistence
\* No snapshot file: _load_from_disk finds nothing to load.
NoSnapshot == [last_saved |-> NoTime]

\* ------------------------------------------------------- store threads
\* The threads of the orchestrator that call update_campaign_progress.
Threads == {"result_processor", "timeout_engine"}

\* A thread outside any store operation; completed and failed count the
\* increments of each counter the thread has carried out.
IdleThread == [pc |-> "idle", counter |-> None, campaign_id |-> NoCampaign,
               read |-> 0, completed |-> 0, failed |-> 0]

\* The request threads of the HTTP server that serve POST /register.
Handlers == {"h1", "h2"}

\* A request thread that serves no request.
IdleHandler == [pc |-> "idle", worker_id |-> None]

\* ---------------------------------------------------- background loops
\* The components that run a loop in a background thread.
Components == {"health_monitor", "timeout_handler", "result_processor"}

\* The threads a component may have started and not yet seen end.
LoopThreads == 1..MaxLoopThreads

\* No thread in a slot.
NoThread == [pc |-> "none", stopped |-> FALSE]

\* A component after __init__: running is False and there is no thread.
NoLoop == [running |-> FALSE, joining |-> FALSE,
           threads |-> [i \in LoopThreads |-> NoThread]]

\* ------------------------------------------------------ state machine
WorkerState == {"active", "busy", "cleanup", "faulty"}

\* StateMachine.__init__(initial_state)
StateMachine(initial_state) ==
    [state |-> initial_state,
     transition_history |-> <<<<initial_state, "initialized">>>>]

\* ---------------------------------------------------------------- Init
Init ==
    /\ now = 1
    /\ workers = <<>>
    /\ campaigns = <<>>
    /\ jobs = <<>>
    /\ results = <<>>
    /\ queues = [q \in QueueNames |-> <<>>]
    /\ resultsChan = <<>>
    /\ retry_history = <<>>
    /\ holding = [w \in Workers |-> Idle]
    /\ last_heartbeat = [w \in Workers |-> NoTime]
    /\ nSubmitted = 0
    /\ disk = NoSnapshot
    /\ lock = None
    /\ loops = [c \in Components |-> NoLoop]
    /\ threads = [t \in Threads \cup Handlers |->
                    IF t \in Threads THEN IdleThread ELSE IdleHandler]
    /\ response = NoResponse
    /\ next_check = 1
    /\ sm = StateMachine("active")

\* The clock advances.
Tick ==
    /\ now < MaxTime
    /\ now' = now + 1
    /\ UNCHANGED <<workers, campaigns, jobs, results, queues, resultsChan,
                   retry_history, holding, last_heartbeat, nSubmitted, response, next_check,
                   disk, lock, threads, sm, loops>>

\* ------------------------------------------------------------ HTTP edge
\* The store after POST /register has been served for worker_id: an
\* existing row is set active by update_worker_status, a missing one is
\* created by register_worker.
register_worker_effects(ws, worker_id, t) ==
    IF worker_id \in DOMAIN ws
    THEN update_worker_status(ws, worker_id, "active", t)
    ELSE (worker_id :> register_worker(
                          [capabilities |-> get_compute_units(worker_id)], t))
         @@ ws

\* The device_info blobs of a request body: UDID and DeviceName are given
\* or empty, Soc, Ram and DeviceOs are sent empty.
DeviceInfoInput == [UDID : {"", "u1"}, DeviceName : {"", "d1"}]

\* The first 12 hex digits of an md5 digest, as the worker name they make:
\* distinct keys of the model have distinct digests.
md5_12(key) == IF key = "u1" THEN "w1" ELSE "w2"

\* The identifiers uuid4 may produce.
RandomIds == {"r1", "r2"}

\* An id derivation that ignores the device and always draws a uuid4.
get_deterministic_worker_id_random(device_info, ws) == RandomIds \ DOMAIN ws

\* get_deterministic_worker_id, as the set of ids it may return: the digest
\* of the UDID, else of the device key when it is not empty, else a random
\* uuid4 fragment, which is an id no row bears yet.
get_deterministic_worker_id(device_info, ws) ==
    IF device_info.UDID # "" THEN {md5_12(device_info.UDID)}
    ELSE IF device_info.DeviceName # "" THEN {md5_12(device_info.DeviceName)}
    ELSE RandomIds \ DOMAIN ws

\* POST /register (api/endpoints.py register_worker), first part: the id is
\* derived and get_worker looks the row up.  The handler keeps a reference
\* to the row object it found.
RegisterLookup(h, device_info) ==
    /\ threads[h].pc = "idle"
    /\ \E worker_id \in get_deterministic_worker_id(device_info, workers)
                         \ {threads[g].worker_id : g \in Handlers \ {h}} :
          threads' = [threads EXCEPT ![h] =
                        [pc |-> "register", device_info |-> device_info,
                         worker_id |-> worker_id,
                         existing |-> worker_id \in DOMAIN workers,
                         replaced |-> FALSE, old_status |-> None]]
    /\ UNCHANGED <<now, workers, campaigns, jobs, results, queues, resultsChan,
                   retry_history, holding, last_heartbeat, nSubmitted, response,
                   next_check, disk, lock, sm, loops>>

\* The status the handler reads from the row object it holds: the object
\* update_worker_status has just written, unless register_worker of another
\* request has put a new object in its place since the lookup.
existing_status(th, ws) ==
    IF th.replaced THEN th.old_status ELSE ws[th.worker_id].status

\* POST /register (api/endpoints.py register_worker), second part: the
\* store is written and the request answered.  register_worker puts a new
\* row object in the map, which detaches the references other handlers hold.
RegisterWrite(h) ==
    LET th == threads[h]
        after == IF th.existing
                 THEN update_worker_status(workers, th.worker_id, "active", now)
                 ELSE (th.worker_id :> register_worker(
                          [capabilities |-> get_compute_units(th.worker_id)], now))
                      @@ workers
    IN /\ th.pc = "register"
       /\ workers' = after
       /\ response' =
             IF th.existing
             THEN [op |-> "register", code |-> 200, worker_id |-> th.worker_id,
                   status |-> "updated",
                   action |-> IF existing_status(th, after) = "faulty"
                              THEN "recovered" ELSE "updated",
                   device_info |-> th.device_info]
             ELSE [op |-> "register", code |-> 200, worker_id |-> th.worker_id,
                   status |-> "registered", action |-> "created",
                   device_info |-> th.device_info]
       /\ threads' = [g \in DOMAIN threads |->
                        IF g = h THEN IdleHandler
                        ELSE IF /\ g \in Handlers
                                /\ ~th.existing
                                /\ threads[g].pc = "register"
                                /\ threads[g].existing
                                /\ ~threads[g].replaced
                                /\ threads[g].worker_id = th.worker_id
                             THEN [threads[g] EXCEPT
                                     !.replaced = TRUE,
                                     !.old_status = workers[th.worker_id].status]
                             ELSE threads[g]]
       /\ UNCHANGED <<now, campaigns, jobs, results, queues, resultsChan,
                      retry_history, holding, last_heartbeat, nSubmitted,
                      next_check, disk, lock, sm, loops>>

\* POST /register (api/endpoints.py register_worker): the worker id is
\* derived from the device, so the same host always names the same row.
RegisterWorker(w) ==
    /\ workers' = register_worker_effects(workers, w, now)
    /\ UNCHANGED <<now, campaigns, jobs, results, queues, resultsChan,
                   retry_history, holding, last_heartbeat, nSubmitted, response, next_check,
                   disk, lock, threads, sm, loops>>

\* The sequences of job entries a request body may carry.
JobSpecLists == UNION {[1..n -> JobSpecInput] : n \in 0..MaxJobs}

\* The queues after the loop of create_campaign has dispatched jobs i..n-1.
RECURSIVE dispatch_jobs(_, _, _, _)
dispatch_jobs(qs, campaign_id, specs, i) ==
    IF i > Len(specs) THEN qs
    ELSE dispatch_jobs(
            push_job_to_queues(qs, <<campaign_id, i - 1>>,
                               create_job(campaign_id, specs[i])),
            campaign_id, specs, i + 1)

\* RedisClient.push_job as seen by the loop of create_campaign: with the
\* broker out of reach ensure_connected fails, push_job returns False and
\* nothing is queued; no exception is raised.
dispatch_jobs_connected(qs, campaign_id, specs, connected) ==
    IF connected THEN dispatch_jobs(qs, campaign_id, specs, 1) ELSE qs

\* The store and broker effects of POST /campaigns (api/endpoints.py
\* create_campaign); connected tells whether the broker can be reached
\* while the request is served.
create_campaign_effects(specs, connected) ==
    LET campaign_id == now
        new_ids == {<<campaign_id, i - 1>> : i \in 1..Len(specs)}
    IN /\ nSubmitted' = nSubmitted + 1
       /\ campaigns' = (campaign_id :> create_campaign(Len(specs))) @@ campaigns
       /\ jobs' = [id \in DOMAIN jobs \cup new_ids |->
                     IF id \in new_ids
                     THEN create_job(campaign_id, specs[id[2] + 1])
                     ELSE jobs[id]]
       /\ queues' = dispatch_jobs_connected(queues, campaign_id, specs, connected)
       /\ UNCHANGED <<now, workers, results, resultsChan, retry_history, holding,
                      last_heartbeat, next_check, disk, lock, threads, sm, loops>>

\* POST /campaigns (api/endpoints.py create_campaign) with the broker in
\* reach; the answer is not observed.
CreateCampaign(specs) ==
    /\ create_campaign_effects(specs, TRUE)
    /\ UNCHANGED response

\* The job entries of a request body, pinned to a worker or not.
JobSpecInputAny == [compute_unit : AllComputeUnits, worker_id : Workers \cup {None}]
JobSpecListsAny == UNION {[1..n -> JobSpecInputAny] : n \in 0..MaxJobs}

\* POST /campaigns (api/endpoints.py create_campaign) with its answer: the
\* value push_job_to_queues returns is dropped, and the handler answers 200
\* with status running after the loop.
PostCampaigns(specs, connected) ==
    /\ create_campaign_effects(specs, connected)
    /\ response' = [op |-> "create_campaign", code |-> 200,
                    campaign_id |-> now, total_jobs |-> Len(specs),
                    status |-> "running", connected |-> connected]

\* ------------------------------------------------------- the worker agent
\* One iteration of WorkerAgent.start_job_loop that finds a job: pop_job on
\* the worker's queues, then GET /jobs/{id}.  The loop does not look at the
\* worker's status.  A job id whose row is missing is dropped.
PollJob(w) ==
    LET queue_names == get_worker_queue_priority(w, get_compute_units(w))
        q == pop_job_from(queues, queue_names, 1)
        job_id == queues[q][Len(queues[q])]
    IN /\ w \in DOMAIN workers
       /\ holding[w] = Idle
       /\ q # NoQueue
       /\ queues' = [queues EXCEPT ![q] = SubSeq(@, 1, Len(@) - 1)]
       /\ holding' = [holding EXCEPT ![w] =
                        IF job_id \in DOMAIN jobs
                        THEN [job_id |-> job_id,
                              campaign_id |-> jobs[job_id].campaign_id,
                              started |-> FALSE]
                        ELSE Idle]
       /\ UNCHANGED <<now, workers, campaigns, jobs, results, resultsChan,
                      retry_history, last_heartbeat, nSubmitted, response, next_check,
                   disk, lock, threads, sm, loops>>

\* The claim of a popped job: store.update_job_status(job_id, 'running', w),
\* the pending -> running step of the job lifecycle.
StartJob(w) ==
    /\ holding[w] # Idle
    /\ ~holding[w].started
    /\ jobs' = update_job_status(jobs, holding[w].job_id, "running", w, now)
    /\ holding' = [holding EXCEPT ![w].started = TRUE]
    /\ UNCHANGED <<now, workers, campaigns, results, queues, resultsChan,
                   retry_history, last_heartbeat, nSubmitted, response, next_check,
                   disk, lock, threads, sm, loops>>

\* WorkerAgent.execute_benchmark_job and publish_result: the result message
\* carries the job's campaign_id and is LPUSHed on 'results'.
PublishResult(w, status) ==
    /\ holding[w] # Idle
    /\ Len(resultsChan) < MaxChan
    /\ resultsChan' = lpush(resultsChan,
                            [job_id |-> holding[w].job_id,
                             campaign_id |-> holding[w].campaign_id,
                             worker_id |-> w,
                             status |-> status])
    /\ holding' = [holding EXCEPT ![w] = Idle]
    /\ UNCHANGED <<now, workers, campaigns, jobs, results, queues,
                   retry_history, last_heartbeat, nSubmitted, response, next_check,
                   disk, lock, threads, sm, loops>>

\* The worker process dies with a job in hand and is started again: no
\* result is ever published for that execution.
WorkerRestart(w) ==
    /\ holding[w] # Idle
    /\ holding' = [holding EXCEPT ![w] = Idle]
    /\ UNCHANGED <<now, workers, campaigns, jobs, results, queues, resultsChan,
                   retry_history, last_heartbeat, nSubmitted, response, next_check,
                   disk, lock, threads, sm, loops>>

\* ---------------------------------------------------- the result processor
\* A result processor that counts every result on both counters.
campaign_progress_both(cs, campaign_id, status) ==
    update_campaign_progress(cs, campaign_id, None, TRUE, TRUE)

\* The campaign part of _process_single_result: the counter increment and
\* the completion check.
campaign_progress(cs, campaign_id, status) ==
    LET cs1 == IF status = "Complete"
               THEN update_campaign_progress(cs, campaign_id, None, TRUE, FALSE)
               ELSE IF status = "Failed"
               THEN update_campaign_progress(cs, campaign_id, None, FALSE, TRUE)
               ELSE cs
    IN IF campaign_id \in DOMAIN cs1
       THEN LET campaign == cs1[campaign_id]
                total_completed == campaign.completed_jobs + campaign.failed_jobs
            IN IF total_completed >= campaign.total_jobs /\ campaign.total_jobs > 0
               THEN update_campaign_progress(cs1, campaign_id, "completed", FALSE, FALSE)
               ELSE cs1
       ELSE cs1

\* ResultProcessor._process_single_result on the message BRPOPed from
\* 'results'.
ProcessResult ==
    /\ Len(resultsChan) > 0
    /\ LET result == resultsChan[Len(resultsChan)]
       IN /\ resultsChan' = SubSeq(resultsChan, 1, Len(resultsChan) - 1)
          /\ results' = (result.job_id :> result) @@ results
          /\ jobs' = update_job_status(jobs, result.job_id, result.status, None, now)
          /\ campaigns' = IF result.campaign_id # NoCampaign
                          THEN campaign_progress(campaigns, result.campaign_id,
                                                 result.status)
                          ELSE campaigns
    /\ UNCHANGED <<now, workers, queues, retry_history, holding, last_heartbeat, nSubmitted, response, next_check,
                   disk, lock, threads, sm, loops>>

\* ------------------------------------------------------ the timeout engine
\* The timeout of a job: its own timeout_seconds, else the handler's default.
\* Rows created by POST /campaigns carry no timeout_seconds.
timeout_seconds(job) == DefaultTimeout

\* A scan that does not look at the status of the job.
is_timed_out_any_status(job, current_time) ==
    /\ job.started_at # NoTime
    /\ current_time - job.started_at > timeout_seconds(job)

\* JobTimeoutHandler._check_job_timeouts: the test that selects a job.
is_timed_out(job, current_time) ==
    /\ job.status = "running"
    /\ job.started_at # NoTime
    /\ current_time - job.started_at > timeout_seconds(job)

\* JobTimeoutHandler._handle_job_timeout for one job selected by the scan;
\* connected tells whether the broker can be reached when the job is pushed
\* back: if not, push_job returns False, which the handler does not look at.
handle_job_timeout_effects(job_id, connected) ==
    /\ job_id \in DOMAIN jobs
    /\ is_timed_out(jobs[job_id], now)
    /\ LET job == jobs[job_id]
           js1 == update_job_status(jobs, job_id, "timed_out", None, now)
           granted == should_retry(retry_history, job_id)
       IN /\ workers' = IF job.worker_id # None
                        THEN update_worker_status(workers, job.worker_id, "faulty", now)
                        ELSE workers
          /\ retry_history' = retry_job(retry_history, job_id, JOB_TIMEOUT, now)
          /\ IF granted
             THEN /\ jobs' = js1
                  /\ queues' = IF job.compute_unit # None /\ connected
                               THEN push_job(queues,
                                             <<"jobs:capability", job.compute_unit>>,
                                             job_id)
                               ELSE queues
                  /\ UNCHANGED campaigns
             ELSE /\ jobs' = update_job_status(js1, job_id, "failed", None, now)
                  /\ campaigns' = IF job.campaign_id # NoCampaign
                                  THEN update_campaign_progress(
                                           campaigns, job.campaign_id, None,
                                           FALSE, TRUE)
                                  ELSE campaigns
                  /\ UNCHANGED queues
    /\ UNCHANGED <<now, results, resultsChan, holding, last_heartbeat, nSubmitted, response, next_check,
                   disk, lock, threads, sm, loops>>

\* _handle_job_timeout with the broker in reach.
HandleJobTimeout(job_id) == handle_job_timeout_effects(job_id, TRUE)

\* Campaign submission and polling: clients submit campaigns whose jobs may
\* be pinned, the broker may be out of reach during a request, workers
\* register and poll, and a worker that restarts drops the job in hand.
NextCampaign ==
    \/ \E specs \in JobSpecListsAny, connected \in BOOLEAN :
          nSubmitted < MaxCampaigns /\ PostCampaigns(specs, connected)
    \/ \E w \in Workers : RegisterWorker(w)
    \/ \E w \in Workers : PollJob(w)
    \/ \E w \in Workers : WorkerRestart(w)

SpecCampaign == Init /\ [][NextCampaign]_vars

\* Campaign submission while time passes: up to MaxSubmissions requests,
\* in the same second or in different ones.
NextSubmit ==
    \/ Tick
    \/ \E specs \in JobSpecLists, connected \in BOOLEAN :
          nSubmitted < MaxSubmissions /\ PostCampaigns(specs, connected)

SpecSubmit == Init /\ [][NextSubmit]_vars

\* Results of several campaigns: clients submit up to MaxSubmissions
\* campaigns, a worker polls their jobs and publishes a result for each,
\* and the result processor takes the results off the channel.
NextResults ==
    \/ Tick
    \/ \E w \in Agents : RegisterWorker(w)
    \/ \E specs \in JobSpecLists :
          nSubmitted < MaxSubmissions /\ CreateCampaign(specs)
    \/ \E w \in Agents : PollJob(w)
    \/ \E w \in Agents, status \in ResultStatus : PublishResult(w, status)
    \/ ProcessResult

SpecResults == Init /\ [][NextResults]_vars

\* -------------------------------------------------------- persistence
\* The document _save_to_disk writes: the four maps and the time of the
\* save.  Every value the store holds is a string, a number, null, a list
\* or a dict with string keys, which json.dump and json.load carry over
\* unchanged.
snapshot_document(ws, cs, js, rs, t) ==
    [workers |-> ws, campaigns |-> cs, jobs |-> js, results |-> rs,
     last_saved |-> t]

\* A load that forgets the results of the document.
load_document_without_results(document) ==
    IF document = NoSnapshot
    THEN [workers |-> <<>>, campaigns |-> <<>>, jobs |-> <<>>, results |-> <<>>]
    ELSE [workers |-> document.workers, campaigns |-> document.campaigns,
          jobs |-> document.jobs, results |-> <<>>]

\* The maps _load_from_disk gives a new store: those of the document, or
\* empty maps when there is no file.
load_document(document) ==
    IF document = NoSnapshot
    THEN [workers |-> <<>>, campaigns |-> <<>>, jobs |-> <<>>, results |-> <<>>]
    ELSE [workers |-> document.workers, campaigns |-> document.campaigns,
          jobs |-> document.jobs, results |-> document.results]

\* InMemoryStore.force_save, and the timer thread's save alike: the file is
\* replaced by a new document, or, when the write fails, the failure is
\* printed and the file is left as it was.
ForceSave(io_ok) ==
    /\ disk' = IF io_ok
               THEN snapshot_document(workers, campaigns, jobs, results, now)
               ELSE disk
    /\ UNCHANGED <<now, workers, campaigns, jobs, results, queues, resultsChan,
                   retry_history, holding, last_heartbeat, nSubmitted, response,
                   next_check, lock, threads, sm, loops>>

\* The orchestrator process is started anew: InMemoryStore.__init__ loads
\* the snapshot file; the retry history, the heartbeat times and the
\* threads start afresh; the broker and the workers are other processes.
LoadStore ==
    LET loaded == load_document(disk)
    IN /\ workers' = loaded.workers
       /\ campaigns' = loaded.campaigns
       /\ jobs' = loaded.jobs
       /\ results' = loaded.results
       /\ retry_history' = <<>>
       /\ last_heartbeat' = [w \in Workers |-> NoTime]
       /\ next_check' = now
       /\ lock' = None
       /\ threads' = [t \in Threads \cup Handlers |->
                        IF t \in Threads THEN IdleThread ELSE IdleHandler]
       /\ UNCHANGED <<now, queues, resultsChan, holding, nSubmitted, response,
                      disk, sm, loops>>

\* The control plane with snapshots and restarts of the orchestrator.
NextPersist ==
    \/ \E w \in Agents : RegisterWorker(w)
    \/ \E specs \in JobSpecLists : nSubmitted < MaxCampaigns /\ CreateCampaign(specs)
    \/ \E w \in Agents : PollJob(w)
    \/ \E w \in Agents : StartJob(w)
    \/ \E w \in Agents, status \in ResultStatus : PublishResult(w, status)
    \/ ProcessResult
    \/ \E io_ok \in BOOLEAN : ForceSave(io_ok)
    \/ LoadStore

SpecPersist == Init /\ [][NextPersist]_vars

\* POST /reset (api/endpoints.py reset_data): the four maps of the store are
\* replaced by empty ones.  The path of the snapshot is read from
\* store.storage_file, an attribute InMemoryStore does not have (its path is
\* persistence_file), so storage_file is None and no file is removed.  The
\* handler answers 200.
PostReset ==
    /\ workers' = <<>>
    /\ campaigns' = <<>>
    /\ jobs' = <<>>
    /\ results' = <<>>
    /\ response' = [op |-> "reset", code |-> 200]
    /\ UNCHANGED <<now, queues, resultsChan, retry_history, holding,
                   last_heartbeat, nSubmitted, next_check, disk, lock, threads,
                   sm, loops>>

\* The control plane with snapshots, restarts and resets.
NextReset ==
    \/ \E w \in Agents : RegisterWorker(w)
    \/ \E specs \in JobSpecLists : nSubmitted < MaxCampaigns /\ CreateCampaign(specs)
    \/ \E w \in Agents : PollJob(w)
    \/ \E w \in Agents, status \in ResultStatus : PublishResult(w, status)
    \/ ProcessResult
    \/ \E io_ok \in BOOLEAN : ForceSave(io_ok)
    \/ LoadStore
    \/ PostReset

SpecReset == Init /\ [][NextReset]_vars

\* Results that outlive the rows they name: campaigns are submitted,
\* workers poll and publish, the store is reset while results are on their
\* way, and the result processor takes them off the channel.
NextStaleResults ==
    \/ Tick
    \/ \E w \in Agents : RegisterWorker(w)
    \/ \E specs \in JobSpecLists :
          nSubmitted < MaxSubmissions /\ CreateCampaign(specs)
    \/ \E w \in Agents : PollJob(w)
    \/ \E w \in Agents, status \in ResultStatus : PublishResult(w, status)
    \/ ProcessResult
    \/ PostReset

SpecStaleResults == Init /\ [][NextStaleResults]_vars

\* ------------------------------------- update_campaign_progress, by step
\* The counters a thread increments: the result processor counts completed
\* and failed results, the timeout handler counts failed jobs.
CountersOf(t) ==
    IF t = "result_processor" THEN {"completed_jobs", "failed_jobs"}
    ELSE {"failed_jobs"}

\* An entry into update_campaign_progress that does not wait for the lock.
UpdAcquire_unlocked(t, counter, campaign_id) ==
    /\ threads[t].pc = "idle"
    /\ counter \in CountersOf(t)
    /\ campaign_id \in DOMAIN campaigns
    /\ threads[t].completed + threads[t].failed < MaxIncrements
    /\ lock' = t
    /\ threads' = [threads EXCEPT ![t] =
                     [@ EXCEPT !.pc = "locked", !.counter = counter,
                               !.campaign_id = campaign_id]]
    /\ UNCHANGED <<now, workers, campaigns, jobs, results, queues, resultsChan,
                   retry_history, holding, last_heartbeat, nSubmitted, response,
                   next_check, disk, sm, loops>>

\* update_campaign_progress(campaign_id, increment_...=True): 'with
\* self.lock' is entered once no thread holds the lock.
UpdAcquire(t, counter, campaign_id) ==
    /\ threads[t].pc = "idle"
    /\ lock = None
    /\ counter \in CountersOf(t)
    /\ campaign_id \in DOMAIN campaigns
    /\ threads[t].completed + threads[t].failed < MaxIncrements
    /\ lock' = t
    /\ threads' = [threads EXCEPT ![t] =
                     [@ EXCEPT !.pc = "locked", !.counter = counter,
                               !.campaign_id = campaign_id]]
    /\ UNCHANGED <<now, workers, campaigns, jobs, results, queues, resultsChan,
                   retry_history, holding, last_heartbeat, nSubmitted, response,
                   next_check, disk, sm, loops>>

\* '+= 1', first half: the counter is read.
UpdRead(t) ==
    /\ threads[t].pc = "locked"
    /\ threads' = [threads EXCEPT ![t] =
                     [@ EXCEPT !.pc = "read",
                               !.read = campaigns[threads[t].campaign_id]
                                                 [threads[t].counter]]]
    /\ UNCHANGED <<now, workers, campaigns, jobs, results, queues, resultsChan,
                   retry_history, holding, last_heartbeat, nSubmitted, response,
                   next_check, disk, lock, sm, loops>>

\* '+= 1', second half: the value read plus one is stored.
UpdWrite(t) ==
    LET th == threads[t]
    IN /\ th.pc = "read"
       /\ campaigns' = [campaigns EXCEPT ![th.campaign_id] =
                          [@ EXCEPT ![th.counter] = th.read + 1]]
       /\ threads' = [threads EXCEPT ![t] =
                        [@ EXCEPT !.pc = "written",
                                  !.completed = IF th.counter = "completed_jobs"
                                                THEN @ + 1 ELSE @,
                                  !.failed = IF th.counter = "failed_jobs"
                                             THEN @ + 1 ELSE @]]
       /\ UNCHANGED <<now, workers, jobs, results, queues, resultsChan,
                      retry_history, holding, last_heartbeat, nSubmitted, response,
                      next_check, disk, lock, sm, loops>>

\* The 'with' block is left: the lock is released.
UpdRelease(t) ==
    /\ threads[t].pc = "written"
    /\ lock' = None
    /\ threads' = [threads EXCEPT ![t] =
                     [@ EXCEPT !.pc = "idle", !.counter = None,
                               !.campaign_id = NoCampaign, !.read = 0]]
    /\ UNCHANGED <<now, workers, campaigns, jobs, results, queues, resultsChan,
                   retry_history, holding, last_heartbeat, nSubmitted, response,
                   next_check, disk, sm, loops>>

\* The state after one POST /campaigns with MaxJobs CPU jobs.
InitCounter ==
    LET specs == [i \in 1..MaxJobs |-> [compute_unit |-> "CPU", worker_id |-> None]]
    IN /\ now = 1
       /\ workers = <<>>
       /\ campaigns = (1 :> create_campaign(MaxJobs))
       /\ jobs = [id \in {<<1, i - 1>> : i \in 1..MaxJobs} |->
                    create_job(1, specs[id[2] + 1])]
       /\ results = <<>>
       /\ queues = dispatch_jobs([q \in QueueNames |-> <<>>], 1, specs, 1)
       /\ resultsChan = <<>>
       /\ retry_history = <<>>
       /\ holding = [w \in Workers |-> Idle]
       /\ last_heartbeat = [w \in Workers |-> NoTime]
       /\ nSubmitted = 1
       /\ disk = NoSnapshot
       /\ lock = None
       /\ loops = [c \in Components |-> NoLoop]
       /\ threads = [t \in Threads \cup Handlers |->
                       IF t \in Threads THEN IdleThread ELSE IdleHandler]
       /\ response = NoResponse
       /\ next_check = 1
       /\ sm = StateMachine("active")

\* The threads of the orchestrator incrementing the counters of a campaign.
NextCounter ==
    \/ \E t \in Threads, counter \in {"completed_jobs", "failed_jobs"},
          campaign_id \in DOMAIN campaigns : UpdAcquire(t, counter, campaign_id)
    \/ \E t \in Threads : UpdRead(t)
    \/ \E t \in Threads : UpdWrite(t)
    \/ \E t \in Threads : UpdRelease(t)

SpecCounter == InitCounter /\ [][NextCounter]_vars

\* ------------------------------------------------ worker lifecycle (HTTP)
\* The module global api.endpoints.health_monitor: init_endpoints names it
\* in its global statement and never assigns it, so it keeps its initial
\* value None and the handlers' "if health_monitor:" branches are skipped.
endpoints_health_monitor == FALSE

\* HealthMonitor.record_heartbeat
record_heartbeat(lh, worker_id, t) == [lh EXCEPT ![worker_id] = t]

\* PUT /workers/{id}/status (api/endpoints.py update_worker_status) with a
\* body whose status is one of the four values; any other value is a 400.
PutWorkerStatus(w, status) ==
    /\ status \in WORKER_STATUS_VALUES
    /\ workers' = update_worker_status(workers, w, status, now)
    /\ UNCHANGED <<now, campaigns, jobs, results, queues, resultsChan,
                   retry_history, holding, last_heartbeat, nSubmitted, response, next_check,
                   disk, lock, threads, sm, loops>>

\* Registration over HTTP: devices register again and again, two requests
\* at a time at most, while time passes and workers are declared faulty.
NextRegister ==
    \/ Tick
    \/ \E h \in Handlers, device_info \in DeviceInfoInput :
          RegisterLookup(h, device_info)
    \/ \E h \in Handlers : RegisterWrite(h)
    \/ \E w \in Workers : PutWorkerStatus(w, "faulty")

SpecRegister == Init /\ [][NextRegister]_vars

\* A faulty variant of the heartbeat endpoint that writes back the status
\* it found, faulty included.
Heartbeat_keeps_status(w) ==
    /\ w \in DOMAIN workers
    /\ workers' = update_worker_status(workers, w, workers[w].status, now)
    /\ response' = [op |-> "heartbeat", worker_id |-> w, code |-> 200,
                    timestamp |-> now, status |-> "active",
                    previous_status |-> workers[w].status,
                    action |-> "updated"]
    /\ UNCHANGED <<now, campaigns, jobs, results, queues, resultsChan,
                   retry_history, holding, last_heartbeat, nSubmitted, next_check,
                   disk, lock, threads, sm, loops>>

\* A faulty variant of the heartbeat endpoint that registers an id it does
\* not know instead of refusing it.
Heartbeat_upsert(w) ==
    /\ workers' = IF w \in DOMAIN workers
                  THEN update_worker_status(workers, w, "active", now)
                  ELSE (w :> register_worker(
                                 [capabilities |-> get_compute_units(w)], now))
                       @@ workers
    /\ response' = [op |-> "heartbeat", worker_id |-> w, code |-> 200,
                    timestamp |-> now, status |-> "active",
                    previous_status |-> IF w \in DOMAIN workers
                                        THEN workers[w].status ELSE None,
                    action |-> "updated"]
    /\ UNCHANGED <<now, campaigns, jobs, results, queues, resultsChan,
                   retry_history, holding, last_heartbeat, nSubmitted, next_check,
                   disk, lock, threads, sm, loops>>

\* POST /workers/{id}/heartbeat (api/endpoints.py worker_heartbeat): 404 for
\* an id the store does not know, else the heartbeat is recorded if the
\* endpoints module has a health monitor, a faulty worker is set active, any
\* other status is written back to refresh last_seen, and the answer is 200.
Heartbeat(w) ==
    /\ IF w \notin DOMAIN workers
       THEN /\ response' = [op |-> "heartbeat", worker_id |-> w, code |-> 404,
                            timestamp |-> NoTime, status |-> None,
                            previous_status |-> None, action |-> None]
            /\ UNCHANGED <<workers, last_heartbeat>>
       ELSE LET current_status == workers[w].status
            IN /\ last_heartbeat' = IF endpoints_health_monitor
                                    THEN record_heartbeat(last_heartbeat, w, now)
                                    ELSE last_heartbeat
               /\ workers' = IF current_status = "faulty"
                             THEN update_worker_status(workers, w, "active", now)
                             ELSE update_worker_status(workers, w, current_status, now)
               /\ response' = [op |-> "heartbeat", worker_id |-> w, code |-> 200,
                               timestamp |-> now, status |-> "active",
                               previous_status |-> current_status,
                               action |-> IF current_status = "faulty"
                                          THEN "recovered" ELSE "updated"]
    /\ UNCHANGED <<now, campaigns, jobs, results, queues, resultsChan,
                   retry_history, holding, nSubmitted, next_check,
                   disk, lock, threads, sm, loops>>

\* PUT /workers/{id}/reset for a registered faulty worker (404 / 400
\* otherwise).
ResetWorker(w) ==
    /\ w \in DOMAIN workers
    /\ workers[w].status = "faulty"
    /\ workers' = update_worker_status(workers, w, "active", now)
    /\ last_heartbeat' = IF endpoints_health_monitor
                         THEN record_heartbeat(last_heartbeat, w, now)
                         ELSE last_heartbeat
    /\ UNCHANGED <<now, campaigns, jobs, results, queues, resultsChan,
                   retry_history, holding, nSubmitted, response, next_check,
                   disk, lock, threads, sm, loops>>

\* ------------------------------------------------------ the health monitor
\* HealthMonitor._check_heartbeats: one scan over all workers, run by
\* _monitor_loop when its sleep has ended; the loop then sleeps
\* check_interval seconds.
CheckHeartbeats ==
    /\ now = next_check
    /\ next_check' = now + CheckInterval
    /\ last_heartbeat' =
          [w \in Workers |->
             IF /\ w \in DOMAIN workers
                /\ workers[w].status # "faulty"
                /\ last_heartbeat[w] = NoTime
             THEN now ELSE last_heartbeat[w]]
    /\ workers' =
          [w \in DOMAIN workers |->
             IF /\ workers[w].status # "faulty"
                /\ last_heartbeat[w] # NoTime
                /\ now - last_heartbeat[w] > HeartbeatTimeout
             THEN update_worker_status(workers, w, "faulty", now)[w]
             ELSE workers[w]]
    /\ UNCHANGED <<now, campaigns, jobs, results, queues, resultsChan,
                   retry_history, holding, nSubmitted, response,
                   disk, lock, threads, sm, loops>>

\* The clock advances while the health monitor sleeps: the scan that is due
\* runs before the clock moves on.
MonitorSleep ==
    /\ now < next_check
    /\ Tick

JobIds == {<<t, i>> : t \in 1..MaxTime, i \in 0..(MaxJobs - 1)}

Next ==
    \/ Tick
    \/ \E w \in Agents : RegisterWorker(w)
    \/ \E specs \in JobSpecLists : nSubmitted < MaxCampaigns /\ CreateCampaign(specs)
    \/ \E w \in Agents : PollJob(w)
    \/ \E w \in Agents : StartJob(w)
    \/ \E w \in Agents, status \in ResultStatus : PublishResult(w, status)
    \/ \E w \in Agents : WorkerRestart(w)
    \/ ProcessResult
    \/ \E job_id \in JobIds : HandleJobTimeout(job_id)

Spec == Init /\ [][Next]_vars

\* The timeout engine with a broker that may be out of reach while a
\* timed-out job is handled.
NextTimeout ==
    \/ Tick
    \/ \E w \in Agents : RegisterWorker(w)
    \/ \E specs \in JobSpecLists : nSubmitted < MaxCampaigns /\ CreateCampaign(specs)
    \/ \E w \in Agents : PollJob(w)
    \/ \E w \in Agents : StartJob(w)
    \/ \E w \in Agents : WorkerRestart(w)
    \/ \E job_id \in JobIds, connected \in BOOLEAN :
          handle_job_timeout_effects(job_id, connected)

SpecTimeout == Init /\ [][NextTimeout]_vars

\* The worker registry alone: every path that writes a worker's status
\* except the timeout engine, which is part of Next.
NextWorker ==
    \/ MonitorSleep
    \/ \E w \in Workers : RegisterWorker(w)
    \/ \E w \in Workers, status \in WORKER_STATUS_VALUES : PutWorkerStatus(w, status)
    \/ \E w \in Workers : Heartbeat(w)
    \/ \E w \in Workers : ResetWorker(w)
    \/ CheckHeartbeats

SpecWorker == Init /\ [][NextWorker]_vars

\* POST /workers/{id}/heartbeat up to the read of the status: get_worker
\* returns the row and current_status is taken from it.  An unknown id is
\* answered 404 by the atomic Heartbeat.
HeartbeatRead(h, w) ==
    /\ threads[h].pc = "idle"
    /\ w \in DOMAIN workers
    /\ threads' = [threads EXCEPT ![h] =
                      [pc |-> "heartbeat", worker_id |-> w,
                       current_status |-> workers[w].status]]
    /\ UNCHANGED <<now, workers, campaigns, jobs, results, queues, resultsChan,
                   retry_history, holding, last_heartbeat, nSubmitted, response,
                   next_check, disk, lock, sm, loops>>

\* The rest of the handler: the heartbeat is recorded, and the store is
\* written with active if the status read was faulty and with the status
\* read otherwise.
HeartbeatWrite(h) ==
    /\ threads[h].pc = "heartbeat"
    /\ LET w == threads[h].worker_id
           current_status == threads[h].current_status
       IN /\ last_heartbeat' = IF endpoints_health_monitor
                               THEN record_heartbeat(last_heartbeat, w, now)
                               ELSE last_heartbeat
          /\ workers' = IF current_status = "faulty"
                        THEN update_worker_status(workers, w, "active", now)
                        ELSE update_worker_status(workers, w, current_status, now)
          /\ response' = [op |-> "heartbeat", worker_id |-> w, code |-> 200,
                          timestamp |-> now, status |-> "active",
                          previous_status |-> current_status,
                          action |-> IF current_status = "faulty"
                                     THEN "recovered" ELSE "updated"]
    /\ threads' = [threads EXCEPT ![h] = IdleHandler]
    /\ UNCHANGED <<now, campaigns, jobs, results, queues, resultsChan,
                   retry_history, holding, nSubmitted, next_check, disk, lock,
                   sm, loops>>

\* The worker registry with the heartbeat handler served by request
\* threads, step by step, next to the health monitor and the operator.
NextHeartbeat ==
    \/ MonitorSleep
    \/ \E w \in Agents : RegisterWorker(w)
    \/ \E w \in Agents, status \in WORKER_STATUS_VALUES : PutWorkerStatus(w, status)
    \/ \E h \in Handlers, w \in Agents : HeartbeatRead(h, w)
    \/ \E h \in Handlers : HeartbeatWrite(h)
    \/ CheckHeartbeats

SpecHeartbeat == Init /\ [][NextHeartbeat]_vars

\* ------------------------------------------------------------ properties
\* The job statuses after which a job is settled: the lower-case values the
\* store and the timeout engine write and the result statuses the result
\* processor copies into the job row.
TerminalJobStatus == {"complete", "failed", "cancelled", "Complete", "Failed"}

JobsOf(campaign_id) == {id \in DOMAIN jobs : jobs[id].campaign_id = campaign_id}

HistoryLen(rh, job_id) == IF job_id \in DOMAIN rh THEN Len(rh[job_id]) ELSE 0

\* A step of the result processor: the only step that takes a message off
\* the results channel.
IsProcessResultStep == Len(resultsChan') < Len(resultsChan)

\* A step of the timeout engine on job_id: the only step that takes a job
\* from running to timed_out or failed.
IsTimeoutStep(job_id) ==
    /\ job_id \in DOMAIN jobs
    /\ job_id \in DOMAIN jobs'
    /\ jobs[job_id].status = "running"
    /\ jobs'[job_id].status \in {"timed_out", "failed"}

\* A step in which worker w pops a job from a job queue.
IsPopStep(w) == holding[w] = Idle /\ holding'[w] # Idle

\* C1: in every reachable state every campaign has
\* completed_jobs + failed_jobs <= total_jobs.
C1_CountersWithinTotal ==
    \A c \in DOMAIN campaigns :
        campaigns[c].completed_jobs + campaigns[c].failed_jobs
            <= campaigns[c].total_jobs

\* C2: processing a terminal result for a job that is already terminal
\* leaves the counters of every campaign unchanged and replaces the stored
\* result by the later message.
C2_SecondResultNoDoubleCount ==
    [][(/\ IsProcessResultStep
        /\ LET result == resultsChan[Len(resultsChan)]
           IN /\ result.job_id \in DOMAIN jobs
              /\ jobs[result.job_id].status \in TerminalJobStatus)
       => /\ \A c \in DOMAIN campaigns :
                /\ campaigns'[c].completed_jobs = campaigns[c].completed_jobs
                /\ campaigns'[c].failed_jobs = campaigns[c].failed_jobs
          /\ LET result == resultsChan[Len(resultsChan)]
             IN results'[result.job_id] = result]_vars

\* C3: a campaign whose status is completed has
\* completed_jobs + failed_jobs = total_jobs and all its jobs terminal.
C3_CompletedMeansAllSettled ==
    \A c \in DOMAIN campaigns :
        campaigns[c].status = "completed"
        => /\ campaigns[c].completed_jobs + campaigns[c].failed_jobs
                = campaigns[c].total_jobs
           /\ \A id \in JobsOf(c) : jobs[id].status \in TerminalJobStatus

\* C4: after every handler has run to its end, a campaign with
\* total_jobs > 0 whose counters add up to total_jobs has status completed,
\* whichever component settled its last job.
C4_AllSettledMeansCompleted ==
    \A c \in DOMAIN campaigns :
        (/\ campaigns[c].total_jobs > 0
         /\ campaigns[c].completed_jobs + campaigns[c].failed_jobs
               = campaigns[c].total_jobs)
        => campaigns[c].status = "completed"

\* C5: once a campaign is completed no step changes its status or its
\* counters.
C5_CompletedIsFrozen ==
    [][\A c \in DOMAIN campaigns :
          campaigns[c].status = "completed"
          => /\ c \in DOMAIN campaigns'
             /\ campaigns'[c].status = "completed"
             /\ campaigns'[c].completed_jobs = campaigns[c].completed_jobs
             /\ campaigns'[c].failed_jobs = campaigns[c].failed_jobs]_vars

\* C6: a worker whose stored status is faulty pops no job.
C6_FaultyNeverPops ==
    [][\A w \in Agents :
          IsPopStep(w) => workers[w].status # "faulty"]_vars

\* The edges of the worker state machine (StateMachine.VALID_TRANSITIONS).
VALID_TRANSITIONS ==
    {<<"active", "busy">>, <<"active", "faulty">>,
     <<"busy", "cleanup">>, <<"busy", "faulty">>,
     <<"cleanup", "active">>, <<"cleanup", "faulty">>,
     <<"faulty", "active">>}

\* C7: every change of a worker's stored status follows an edge of the
\* worker state machine.
C7_StatusChangesFollowEdges ==
    [][\A w \in DOMAIN workers :
          (w \in DOMAIN workers' /\ workers'[w].status # workers[w].status)
          => <<workers[w].status, workers'[w].status>> \in VALID_TRANSITIONS]_vars

\* C8: each timeout of a job with fewer than MaxAttempts - 1 retry records
\* appends one record with reason job_timeout and pushes the job id on its
\* capability queue; the timeout that finds MaxAttempts - 1 records sets
\* the job to failed, records and enqueues nothing, and adds exactly one to
\* the failed_jobs of the job's campaign.
C8_RetriesThenFails ==
    [][\A id \in DOMAIN jobs :
          IsTimeoutStep(id)
          => LET n == HistoryLen(retry_history, id)
                 c == jobs[id].campaign_id
             IN IF n < MaxAttempts - 1
                THEN /\ jobs'[id].status = "timed_out"
                     /\ retry_history'[id] =
                           Append(IF n = 0 THEN <<>> ELSE retry_history[id],
                                  [timestamp |-> now, reason |-> JOB_TIMEOUT,
                                   attempt |-> n + 1])
                     /\ queues' = push_job(queues,
                                           <<"jobs:capability", jobs[id].compute_unit>>,
                                           id)
                     /\ campaigns' = campaigns
                ELSE /\ n = MaxAttempts - 1
                     /\ \A k \in 1..n : retry_history[id][k].reason = JOB_TIMEOUT
                     /\ jobs'[id].status = "failed"
                     /\ retry_history' = retry_history
                     /\ queues' = queues
                     /\ campaigns'[c].failed_jobs = campaigns[c].failed_jobs + 1
                     /\ campaigns'[c].completed_jobs = campaigns[c].completed_jobs]_vars

\* A job has timed out MaxAttempts times: MaxAttempts - 1 retries are on
\* record and the timeout engine has failed it and counted it.
C8_Witness ==
    \E id \in DOMAIN jobs :
        /\ jobs[id].status = "failed"
        /\ HistoryLen(retry_history, id) = MaxAttempts - 1
        /\ campaigns[jobs[id].campaign_id].failed_jobs = 1
        /\ \A q \in QueueNames : \A k \in 1..Len(queues[q]) : queues[q][k] # id

\* C9: the number of retry records of a job and its retry_count never
\* decrease and never exceed MaxAttempts - 1, and a retry asked for a job
\* that has MaxAttempts - 1 records is refused and records nothing.
C9_RetryCountBounded ==
    [][/\ \A id \in DOMAIN retry_history' :
            /\ Len(retry_history'[id]) <= MaxAttempts - 1
            /\ Len(retry_history'[id]) >= HistoryLen(retry_history, id)
       /\ DOMAIN retry_history \subseteq DOMAIN retry_history'
       /\ \A id \in DOMAIN jobs' :
            /\ jobs'[id].retry_count <= MaxAttempts - 1
            /\ id \in DOMAIN jobs => jobs'[id].retry_count >= jobs[id].retry_count
       /\ \A id \in DOMAIN jobs :
            (IsTimeoutStep(id) /\ HistoryLen(retry_history, id) = MaxAttempts - 1)
            => /\ retry_history' = retry_history
               /\ jobs'[id].status = "failed"]_vars

\* A retry was asked for a job that had used up its retries, and refused.
C9_Witness ==
    \E id \in DOMAIN jobs :
        /\ id \in DOMAIN retry_history
        /\ Len(retry_history[id]) = MaxAttempts - 1
        /\ jobs[id].status = "failed"
        /\ jobs[id].completed_at # NoTime

\* C10: a timeout for which a retry is granted leaves the job pending with
\* its worker_id cleared.
C10_RetryLeavesPendingUnpinned ==
    [][\A id \in DOMAIN jobs :
          (IsTimeoutStep(id) /\ HistoryLen(retry_history', id)
                                  > HistoryLen(retry_history, id))
          => /\ jobs'[id].status = "pending"
             /\ jobs'[id].worker_id = None]_vars

\* ------------------------------------------------- the dispatcher alone
\* The job dictionaries handed to the dispatcher: worker_id and compute_unit
\* each present or absent.
JobInfoInput == [worker_id : Workers \cup {None}, compute_unit : ComputeUnits \cup {None}]

\* One call of JobDispatcher.push_job_to_queues.
DispatchJob(job_id, job_info) ==
    /\ \A q \in QueueNames : Len(queues[q]) < MaxJobs
    /\ queues' = push_job_to_queues(queues, job_id, job_info)
    /\ response' = [op |-> "push_job_to_queues", job_id |-> job_id,
                    job_info |-> job_info,
                    ok |-> push_job_to_queues_result(job_info)]
    /\ UNCHANGED <<now, workers, campaigns, jobs, results, resultsChan,
                   retry_history, holding, last_heartbeat, nSubmitted, next_check,
                   disk, lock, threads, sm, loops>>

NextDispatch ==
    \E i \in 0..(MaxJobs - 1), job_info \in JobInfoInput :
        DispatchJob(<<1, i>>, job_info)

SpecDispatch == Init /\ [][NextDispatch]_vars

\* The queues a step has changed.
ChangedQueues == {q \in QueueNames : queues'[q] # queues[q]}

\* The last answered call is a heartbeat of w answered 200 at time t.
HeartbeatAnswered(w, t) ==
    /\ response.op = "heartbeat"
    /\ response.worker_id = w
    /\ response.code = 200
    /\ response.timestamp = t

\* A worker whose last heartbeat is more than heartbeat_timeout +
\* check_interval old, and whose row nothing has written since, is faulty.
SilentWorkerIsFaulty ==
    \A w \in DOMAIN workers : \A t \in 1..MaxTime :
        (/\ HeartbeatAnswered(w, t)
         /\ workers[w].last_seen = t
         /\ now > t + HeartbeatTimeout + CheckInterval)
        => workers[w].status = "faulty"

\* C15: a health check moves every worker that is not faulty and whose
\* recorded last_heartbeat is more than heartbeat_timeout old to faulty; a
\* worker that stops heartbeating is faulty within heartbeat_timeout +
\* check_interval of its last heartbeat; a faulty worker is not returned by
\* get_workers_by_capability.
C15_StaleWorkersBecomeFaulty ==
    [][/\ CheckHeartbeats
          => \A w \in DOMAIN workers :
                (/\ workers[w].status # "faulty"
                 /\ last_heartbeat[w] # NoTime
                 /\ now - last_heartbeat[w] > HeartbeatTimeout)
                => workers'[w].status = "faulty"
       /\ SilentWorkerIsFaulty'
       /\ \A w \in DOMAIN workers' : \A u \in ComputeUnits :
             workers'[w].status = "faulty"
             => w \notin get_workers_by_capability(workers', u)]_vars

\* C16: a heartbeat answered 200 sets the health monitor's last_heartbeat
\* of the worker to the current time.
C16_HeartbeatRecorded ==
    \A w \in Workers :
        HeartbeatAnswered(w, now) => last_heartbeat[w] = now

\* C17: a heartbeat for a registered faulty worker sets it active, is
\* answered 200 with previous_status faulty and action recovered, and the
\* worker is returned by get_workers_by_capability for each capability.
C17_HeartbeatRecoversFaulty ==
    [][\A w \in Workers :
          (/\ w \in DOMAIN workers
           /\ workers[w].status = "faulty"
           /\ Heartbeat(w))
          => /\ workers'[w].status = "active"
             /\ response'.code = 200
             /\ response'.worker_id = w
             /\ response'.previous_status = "faulty"
             /\ response'.action = "recovered"
             /\ \A k \in 1..Len(workers'[w].capabilities) :
                   w \in get_workers_by_capability(
                            workers', workers'[w].capabilities[k])]_vars

\* A faulty worker has been recovered by its heartbeat.
C17_Witness ==
    \E w \in DOMAIN workers :
        /\ HeartbeatAnswered(w, now)
        /\ response.previous_status = "faulty"
        /\ response.action = "recovered"
        /\ workers[w].status = "active"
        /\ w \in get_workers_by_capability(workers, "CPU")

\* C18: a heartbeat for an id that is not registered is answered 404 and
\* creates no row, changes no worker and records no last_heartbeat.
C18_UnknownHeartbeatChangesNothing ==
    [][\A w \in Workers :
          (w \notin DOMAIN workers /\ Heartbeat(w))
          => /\ response'.code = 404
             /\ workers' = workers
             /\ last_heartbeat' = last_heartbeat]_vars

\* An unknown id has sent a heartbeat while another worker is registered.
C18_Witness ==
    /\ response.op = "heartbeat"
    /\ response.code = 404
    /\ response.worker_id \notin DOMAIN workers
    /\ DOMAIN workers # {}
    /\ last_heartbeat[response.worker_id] = NoTime

\* C19: a job with worker_id set is enqueued on jobs:{worker_id} only; else
\* a job with compute_unit set is enqueued on exactly one capability queue;
\* a job with neither is enqueued nowhere and the push reports failure.
C19_FirstMatchWins ==
    [][\A i \in 0..(MaxJobs - 1), job_info \in JobInfoInput :
          DispatchJob(<<1, i>>, job_info)
          => IF job_info.worker_id # None
             THEN /\ ChangedQueues = {<<"jobs", job_info.worker_id>>}
                  /\ queues'[<<"jobs", job_info.worker_id>>]
                        = <<<<1, i>>>> \o queues[<<"jobs", job_info.worker_id>>]
                  /\ response'.ok
             ELSE IF job_info.compute_unit # None
             THEN /\ ChangedQueues = {<<"jobs:capability", job_info.compute_unit>>}
                  /\ Len(queues'[<<"jobs:capability", job_info.compute_unit>>])
                        = Len(queues[<<"jobs:capability", job_info.compute_unit>>]) + 1
                  /\ response'.ok
             ELSE /\ ChangedQueues = {}
                  /\ ~response'.ok]_vars

\* A pinned job that also names a compute unit sits on its worker's queue
\* while the queue of that compute unit is empty.
C19_Witness ==
    /\ response.op = "push_job_to_queues"
    /\ response.job_info.worker_id # None
    /\ response.job_info.compute_unit # None
    /\ response.ok
    /\ queues[<<"jobs", response.job_info.worker_id>>] # <<>>
    /\ queues[<<"jobs:capability", response.job_info.compute_unit>>] = <<>>

\* The normalized form of a compute unit tag: lower case, no parentheses,
\* underscores for spaces.
C20_Normalized(u) == IF u = "CPU" THEN "cpu" ELSE u

\* C20: a job routed by capability sits on the queue named by the
\* normalized compute unit, so a "CPU" job is on jobs:capability:cpu.
C20_CapabilityQueueNormalized ==
    \A q \in QueueNames :
        (q[1] = "jobs:capability" /\ queues[q] # <<>>)
        => q[2] = C20_Normalized(q[2])

\* --------------------------------------------- the timeout loop, fairly
\* The timeout loop keeps running and the clock keeps advancing.
SpecLive ==
    /\ Init
    /\ [][Next]_vars
    /\ WF_vars(Tick)
    /\ \A job_id \in JobIds : WF_vars(HandleJobTimeout(job_id))

\* ------------------------------------------------ the backoff functions
\* The arguments of one delay computation: a policy without jitter and an
\* attempt index.
BackoffInput ==
    [op : {"backoff_input"}, initial_delay : 1..MaxDelay,
     multiplier : 1..MaxMultiplier, max_delay : 1..MaxDelay,
     attempt : 0..MaxAttemptIndex]

InitBackoff ==
    /\ now = 1
    /\ workers = <<>>
    /\ campaigns = <<>>
    /\ jobs = <<>>
    /\ results = <<>>
    /\ queues = [q \in QueueNames |-> <<>>]
    /\ resultsChan = <<>>
    /\ retry_history = <<>>
    /\ holding = [w \in Workers |-> Idle]
    /\ last_heartbeat = [w \in Workers |-> NoTime]
    /\ nSubmitted = 0
    /\ disk = NoSnapshot
    /\ lock = None
    /\ loops = [c \in Components |-> NoLoop]
    /\ threads = [t \in Threads \cup Handlers |->
                    IF t \in Threads THEN IdleThread ELSE IdleHandler]
    /\ response \in BackoffInput
    /\ next_check = 1
    /\ sm = StateMachine("active")

\* RetryPolicy(initial_delay, max_delay, backoff_multiplier,
\* jitter=False).get_delay(attempt)
PolicyGetDelay ==
    /\ response.op = "backoff_input"
    /\ response' =
          [response EXCEPT !.op = "get_delay"] @@
          [delay |-> get_delay([max_attempts |-> MaxAttempts,
                                initial_delay |-> response.initial_delay,
                                max_delay |-> response.max_delay,
                                backoff_multiplier |-> response.multiplier,
                                jitter |-> FALSE],
                               response.attempt, 0)]
    /\ UNCHANGED <<now, workers, campaigns, jobs, results, queues, resultsChan,
                   retry_history, holding, last_heartbeat, nSubmitted, next_check,
                   disk, lock, threads, sm, loops>>

\* ExponentialBackoffCalculator.calculate_delay(attempt, initial_delay,
\* multiplier, max_delay)
CalculateDelay ==
    /\ response.op = "backoff_input"
    /\ response' =
          [response EXCEPT !.op = "calculate_delay"] @@
          [delay |-> calculate_delay(response.attempt, response.initial_delay,
                                     response.multiplier, response.max_delay)]
    /\ UNCHANGED <<now, workers, campaigns, jobs, results, queues, resultsChan,
                   retry_history, holding, last_heartbeat, nSubmitted, next_check,
                   disk, lock, threads, sm, loops>>

NextBackoff == PolicyGetDelay \/ CalculateDelay

SpecBackoff == InitBackoff /\ [][NextBackoff]_vars

\* The job was popped and then dropped: it is not settled, it is on no
\* queue, no worker has it in hand and no result for it is in flight.
Abandoned(id) ==
    /\ id \in DOMAIN jobs
    /\ jobs[id].status \notin TerminalJobStatus
    /\ \A q \in QueueNames : \A k \in 1..Len(queues[q]) : queues[q][k] # id
    /\ \A w \in Agents : holding[w].job_id # id
    /\ \A k \in 1..Len(resultsChan) : resultsChan[k].job_id # id

\* C11: with the timeout loop running, a job that was popped and for which
\* no result is published does not stay as it is for ever: it is marked
\* timed_out and then re-enqueued or failed.  (Before the last instant of
\* the modelled time, so that the clock can still pass the job's timeout.)
C11_AbandonedJobIsRecovered ==
    \A id \in JobIds : (Abandoned(id) /\ now < MaxTime) ~> ~Abandoned(id)

\* The delay of the k-th retry as the retry manager computes it after the
\* k-th record, and as stated: min(initial_delay * multiplier^(k-1), max_delay).
StatedRetryDelay(policy, k) ==
    min(policy.initial_delay * pow(policy.backoff_multiplier, k - 1),
        policy.max_delay)

\* A step that takes job id to running.
IsStartStep(id) ==
    /\ id \in DOMAIN jobs
    /\ id \in DOMAIN jobs'
    /\ jobs'[id].status = "running"
    /\ jobs'[id].started_at = now
    /\ jobs[id].status # "running"

\* C12: the timeout handling that re-enqueues a job records
\* retry_after = now + delay on the stored job, and no worker starts the
\* job before that time.
C12_RetryAfterHonoured ==
    [][\A id \in DOMAIN jobs :
          /\ (IsTimeoutStep(id) /\ HistoryLen(retry_history', id)
                                   > HistoryLen(retry_history, id))
             => jobs'[id].retry_after
                   >= now + get_retry_delay(retry_history', id, retry_policy, 0)
          /\ (IsStartStep(id) /\ HistoryLen(retry_history, id) > 0)
             => now >= retry_history[id][HistoryLen(retry_history, id)].timestamp
                         + get_retry_delay(retry_history, id, retry_policy, 0)]_vars

\* C13: with jitter disabled the delay the timeout engine computes for the
\* k-th retry of a job is min(initial_delay * multiplier^(k-1), max_delay):
\* 1 s for the first retry, 2 s for the second.
C13_KthRetryDelay ==
    [][\A id \in DOMAIN jobs :
          (IsTimeoutStep(id) /\ HistoryLen(retry_history', id)
                                  > HistoryLen(retry_history, id))
          => LET policy == [retry_policy EXCEPT !.jitter = FALSE]
                 k == HistoryLen(retry_history', id)
             IN /\ get_retry_delay(retry_history', id, policy, 0)
                      = StatedRetryDelay(policy, k)
                /\ k = 1 => get_retry_delay(retry_history', id, policy, 0) = 1
                /\ k = 2 => get_retry_delay(retry_history', id, policy, 0) = 2]_vars

\* C14: without jitter get_delay(k) and calculate_delay(k) both return
\* min(initial_delay * multiplier^k, max_delay), for k = 0 and for
\* initial_delay > max_delay too; the delay never exceeds max_delay and the
\* delay of k + 1 is not smaller.
C14_BackoffIsCappedExponential ==
    response.op \in {"get_delay", "calculate_delay"}
    => /\ response.delay
            = min(response.initial_delay * pow(response.multiplier, response.attempt),
                  response.max_delay)
       /\ response.delay <= response.max_delay
       /\ response.delay
            <= IF response.op = "get_delay"
               THEN get_delay([max_attempts |-> MaxAttempts,
                               initial_delay |-> response.initial_delay,
                               max_delay |-> response.max_delay,
                               backoff_multiplier |-> response.multiplier,
                               jitter |-> FALSE],
                              response.attempt + 1, 0)
               ELSE calculate_delay(response.attempt + 1, response.initial_delay,
                                    response.multiplier, response.max_delay)

\* ------------------------------------------------ campaigns over HTTP
\* A step that serves one POST /campaigns request and answers it.
IsPostCampaignsStep ==
    /\ nSubmitted' = nSubmitted + 1
    /\ response'.op = "create_campaign"

\* C21: when the broker push fails for a job during POST /campaigns, the
\* request is answered with a 5xx code, not with 200, and the job rows stay
\* in the store with status pending.
C21_PushFailureAnswers5xx ==
    [][(IsPostCampaignsStep /\ ~response'.connected /\ response'.total_jobs > 0)
         => /\ response'.code >= 500
            /\ \A i \in 1..response'.total_jobs :
                 /\ <<now, i - 1>> \in DOMAIN jobs'
                 /\ jobs'[<<now, i - 1>>].status = "pending"]_vars

\* The queue names a worker polls, in the order the claim states: its
\* personal queue, then one queue per capability of its registration.
C22_PollOrder(w) ==
    <<<<"jobs", w>>>> \o
    [k \in 1..Len(workers[w].capabilities) |->
        <<"jobs:capability", workers[w].capabilities[k]>>]

\* C22: a poll returns a job of the worker's personal queue whenever that
\* queue is non-empty, otherwise of the first non-empty capability queue in
\* the capability order of its registration; it takes the job pushed first
\* and leaves the others in place; a push never gets ahead of a job already
\* queued, and the jobs of one request are queued in the order of the body.
C22_PollPriorityAndFifo ==
    [][/\ \A w \in Workers :
            PollJob(w)
            => LET names == C22_PollOrder(w)
                   first == CHOOSE k \in 1..Len(names) :
                               /\ queues[names[k]] # <<>>
                               /\ \A j \in 1..(k - 1) : queues[names[j]] = <<>>
                   q == names[first]
               IN /\ holding'[w] # Idle
                  /\ holding'[w].job_id = queues[q][Len(queues[q])]
                  /\ queues' = [queues EXCEPT ![q] = SubSeq(@, 1, Len(@) - 1)]
       /\ IsPostCampaignsStep
            => \A q \in QueueNames :
                 LET added == Len(queues'[q]) - Len(queues[q])
                 IN /\ added >= 0
                    /\ SubSeq(queues'[q], added + 1, Len(queues'[q])) = queues[q]
                    /\ \A a, b \in 1..added :
                         a < b => queues'[q][a][2] > queues'[q][b][2]]_vars

\* A worker holds the job pinned to it, the second of its request, while
\* the first job of the request still waits in a capability queue the
\* worker polls.
C22_Witness ==
    \E w \in DOMAIN workers :
        /\ holding[w] # Idle
        /\ jobs[holding[w].job_id].worker_id = w
        /\ holding[w].job_id[2] = 1
        /\ \E k \in 1..Len(workers[w].capabilities) :
              queues[<<"jobs:capability", workers[w].capabilities[k]>>]
                = <<<<holding[w].job_id[1], 0>>>>

\* C26: a campaign submitted with an empty jobs list (total_jobs = 0) is
\* accepted, and its status is completed as soon as it has been created.
C26_EmptyCampaignCompleted ==
    \A c \in DOMAIN campaigns :
        campaigns[c].total_jobs = 0 => campaigns[c].status = "completed"

\* ------------------------------------------------ registration over HTTP
\* The request that handler h completes in this step carries the same
\* device_info as the request answered last.
C23_SameDeviceAgain(h) ==
    /\ RegisterWrite(h)
    /\ response.op = "register"
    /\ response.device_info = threads[h].device_info

C24_ReRegisterKeepsRow ==
    [][\A h \in Handlers :
         (RegisterWrite(h) /\ threads[h].existing)
         => LET w == threads[h].worker_id
            IN /\ DOMAIN workers' = DOMAIN workers
               /\ workers'[w].registered_at = workers[w].registered_at
               /\ workers'[w].last_seen = now
               /\ workers'[w].status = "active"
               /\ response'.worker_id = w
               /\ response'.status = "updated"]_vars

\* The device with UDID u1 has just registered again, later than its first
\* registration: its row is active and was last seen now.
C24_Witness ==
    /\ response.op = "register"
    /\ response.status = "updated"
    /\ response.device_info.UDID = "u1"
    /\ workers[response.worker_id].status = "active"
    /\ workers[response.worker_id].last_seen = now
    /\ workers[response.worker_id].registered_at < now

\* C25: the answer of /register carries action created for a new worker,
\* recovered exactly when the existing worker was faulty immediately before
\* the call, and updated for an existing worker that was not faulty.
C25_RegisterAction ==
    [][\A h \in Handlers :
         RegisterWrite(h)
         => response'.action =
              IF ~threads[h].existing THEN "created"
              ELSE IF workers[threads[h].worker_id].status = "faulty"
                   THEN "recovered"
                   ELSE "updated"]_vars

C28_CountersBehindTerminalJobs ==
    \A c \in DOMAIN campaigns :
        campaigns[c].completed_jobs + campaigns[c].failed_jobs
          <= Cardinality({id \in JobsOf(c) : jobs[id].status \in TerminalJobStatus})

\* The number of increments of a counter the threads have carried out.
C29_Increments(counter) ==
    IF counter = "completed_jobs"
    THEN threads["result_processor"].completed + threads["timeout_engine"].completed
    ELSE threads["result_processor"].failed + threads["timeout_engine"].failed

\* C29: when update_campaign_progress calls of different threads interleave
\* no increment is lost: after k completed-increments and m failed-increments
\* completed_jobs is k and failed_jobs is m, and neither counter decreases.
C29_NoLostIncrement ==
    /\ [](\A c \in DOMAIN campaigns :
            /\ campaigns[c].completed_jobs = C29_Increments("completed_jobs")
            /\ campaigns[c].failed_jobs = C29_Increments("failed_jobs"))
    /\ [][\A c \in DOMAIN campaigns :
            /\ campaigns'[c].completed_jobs >= campaigns[c].completed_jobs
            /\ campaigns'[c].failed_jobs >= campaigns[c].failed_jobs]_vars

\* Both threads have incremented failed_jobs, the result processor has
\* incremented completed_jobs, and the timeout handler is inside its next
\* call with the lock in hand.
C29_Witness ==
    /\ threads["result_processor"].completed >= 1
    /\ threads["result_processor"].failed >= 1
    /\ threads["timeout_engine"].failed >= 1
    /\ threads["timeout_engine"].pc = "read"
    /\ lock = "timeout_engine"
    /\ campaigns[1].completed_jobs + campaigns[1].failed_jobs >= 3

\* ------------------------------------------------------ state machine
\* A transition check that only refuses self-transitions.
can_transition_any_distinct(state, target_state) == state # target_state

\* StateMachine.can_transition, for a machine in the given state.
can_transition(state, target_state) ==
    IF state = target_state THEN FALSE
    ELSE target_state \in {edge[2] : edge \in {x \in VALID_TRANSITIONS : x[1] = state}}

\* The reasons a caller gives; the empty string is the default.
TransitionReasons == {"", "job_started"}

\* StateMachine.transition(target_state, reason): InvalidStateTransition is
\* raised before anything is written, or the state is set and the history
\* extended.
SmTransition(target_state, reason) ==
    /\ Len(sm.transition_history) < MaxHistory
    /\ IF ~can_transition(sm.state, target_state)
       THEN /\ response' = [op |-> "transition", target_state |-> target_state,
                            raised |-> TRUE]
            /\ UNCHANGED sm
       ELSE /\ sm' = [state |-> target_state,
                      transition_history |->
                         Append(sm.transition_history,
                                <<target_state,
                                  IF reason # "" THEN reason ELSE "manual">>)]
            /\ response' = [op |-> "transition", target_state |-> target_state,
                            raised |-> FALSE]
    /\ UNCHANGED <<now, workers, campaigns, jobs, results, queues, resultsChan,
                   retry_history, holding, last_heartbeat, nSubmitted,
                   next_check, disk, lock, threads, loops>>

\* A state machine constructed with any initial state.
InitStateMachine ==
    /\ now = 1
    /\ workers = <<>>
    /\ campaigns = <<>>
    /\ jobs = <<>>
    /\ results = <<>>
    /\ queues = [q \in QueueNames |-> <<>>]
    /\ resultsChan = <<>>
    /\ retry_history = <<>>
    /\ holding = [w \in Workers |-> Idle]
    /\ last_heartbeat = [w \in Workers |-> NoTime]
    /\ nSubmitted = 0
    /\ disk = NoSnapshot
    /\ lock = None
    /\ loops = [c \in Components |-> NoLoop]
    /\ threads = [t \in Threads \cup Handlers |->
                    IF t \in Threads THEN IdleThread ELSE IdleHandler]
    /\ response = NoResponse
    /\ next_check = 1
    /\ sm \in {StateMachine(initial_state) : initial_state \in WorkerState}

NextStateMachine ==
    \E target_state \in WorkerState, reason \in TransitionReasons :
        SmTransition(target_state, reason)

SpecStateMachine == InitStateMachine /\ [][NextStateMachine]_vars

\* The seven edges the claim names.
C30_SevenEdges ==
    {<<"active", "busy">>, <<"active", "faulty">>, <<"busy", "cleanup">>,
     <<"busy", "faulty">>, <<"cleanup", "active">>, <<"cleanup", "faulty">>,
     <<"faulty", "active">>}

\* C30: can_transition(t) is true exactly for the seven edges and false for
\* every self-transition; transition(t) on a non-edge raises
\* InvalidStateTransition and leaves state and transition_history unchanged;
\* on an edge it sets state to t and appends one history entry.
C30_StateMachineEdges ==
    /\ [](\A t \in WorkerState :
            /\ can_transition(sm.state, t) <=> <<sm.state, t>> \in C30_SevenEdges
            /\ ~can_transition(sm.state, sm.state))
    /\ [][\A t \in WorkerState, reason \in TransitionReasons :
            SmTransition(t, reason)
            => IF <<sm.state, t>> \in C30_SevenEdges
               THEN /\ ~response'.raised
                    /\ sm'.state = t
                    /\ Len(sm'.transition_history) = Len(sm.transition_history) + 1
                    /\ SubSeq(sm'.transition_history, 1, Len(sm.transition_history))
                         = sm.transition_history
                    /\ sm'.transition_history[Len(sm'.transition_history)][1] = t
               ELSE /\ response'.raised
                    /\ sm'.state = sm.state
                    /\ sm'.transition_history = sm.transition_history]_vars

\* A machine that went active, busy, faulty has just refused faulty -> busy.
C30_Witness ==
    /\ sm.state = "faulty"
    /\ Len(sm.transition_history) = 3
    /\ sm.transition_history[1][1] = "active"
    /\ sm.transition_history[2][1] = "busy"
    /\ response.op = "transition"
    /\ response.target_state = "busy"
    /\ response.raised

\* ------------------------------------------------------ job lifecycle
\* The lifecycle name of a stored job status: the result processor stores
\* the status of the result message, which is capitalised.
C31_Stage(status) ==
    IF status = "Complete" THEN "complete"
    ELSE IF status = "Failed" THEN "failed"
    ELSE status

\* The arcs of the job lifecycle the claim names.
C31_JobArcs ==
    {<<"pending", "running">>, <<"running", "complete">>,
     <<"running", "failed">>, <<"running", "timed_out">>,
     <<"timed_out", "pending">>, <<"timed_out", "failed">>}

\* C31: a job's stored status only moves along pending -> running ->
\* {complete, failed, timed_out}, timed_out -> pending and timed_out ->
\* failed; a job that is complete or failed never changes status again.
C31_JobStatusFollowsLifecycle ==
    [][\A id \in DOMAIN jobs \cap DOMAIN jobs' :
         C31_Stage(jobs'[id].status) # C31_Stage(jobs[id].status)
         => <<C31_Stage(jobs[id].status), C31_Stage(jobs'[id].status)>>
              \in C31_JobArcs]_vars

\* C32: every POST /campaigns creates a campaign_id distinct from that of
\* every existing campaign and job_ids distinct from those of every existing
\* job, so no existing campaign row or job row is overwritten.
C32_FreshCampaignAndJobIds ==
    [][IsPostCampaignsStep
         => /\ response'.campaign_id \notin DOMAIN campaigns
            /\ \A id \in DOMAIN jobs : id[1] # response'.campaign_id
            /\ \A c \in DOMAIN campaigns : campaigns'[c] = campaigns[c]
            /\ \A id \in DOMAIN jobs : jobs'[id] = jobs[id]]_vars

\* ---------------------------------------------------- background loops
\* The threads of a component that are inside their loop.
LiveThreads(c) == {i \in LoopThreads : loops[c].threads[i].pc \in {"test", "iterate"}}

\* The slots a new thread may take: empty ones and those of ended threads.
FreeSlots(c) == {i \in LoopThreads : loops[c].threads[i].pc \in {"none", "done"}}

LoopFrame ==
    UNCHANGED <<now, workers, campaigns, jobs, results, queues, resultsChan,
                retry_history, holding, last_heartbeat, nSubmitted, response,
                next_check, disk, lock, threads, sm>>

\* start(): nothing when running is set; else running is set and a new
\* thread enters the loop.
LoopStart(c) ==
    /\ ~loops[c].joining
    /\ IF loops[c].running
       THEN UNCHANGED loops
       ELSE /\ FreeSlots(c) # {}
            /\ LET i == CHOOSE k \in FreeSlots(c) : \A j \in FreeSlots(c) : k <= j
               IN loops' = [loops EXCEPT
                              ![c].running = TRUE,
                              ![c].threads[i] = [pc |-> "test", stopped |-> FALSE]]
    /\ LoopFrame

\* stop(), first part: running is cleared and the caller waits in
\* join(timeout=5).  Each thread that is inside its loop is marked as told
\* to stop.
LoopStop(c) ==
    /\ ~loops[c].joining
    /\ loops' = [loops EXCEPT
                   ![c].running = FALSE,
                   ![c].joining = TRUE,
                   ![c].threads = [i \in LoopThreads |->
                                     IF i \in LiveThreads(c)
                                     THEN [@[i] EXCEPT !.stopped = TRUE]
                                     ELSE @[i]]]
    /\ LoopFrame

\* stop(), second part: join returns once the thread has ended, or after
\* five seconds while the thread is still inside the body of its loop (the
\* sleep of check_interval seconds, the blocking pop, a long scan).
LoopJoinReturns(c) ==
    /\ loops[c].joining
    /\ \A i \in LiveThreads(c) : loops[c].threads[i].pc = "iterate"
    /\ loops' = [loops EXCEPT ![c].joining = FALSE]
    /\ LoopFrame

\* 'while self.running': the thread begins an iteration or leaves the loop.
LoopTest(c, i) ==
    /\ loops[c].threads[i].pc = "test"
    /\ loops' = [loops EXCEPT ![c].threads[i].pc =
                   IF loops[c].running THEN "iterate" ELSE "done"]
    /\ LoopFrame

\* The body of the loop, the scan or the blocking pop and its sleep, comes
\* to its end; the store this specification runs on holds nothing to scan.
LoopIterate(c, i) ==
    /\ loops[c].threads[i].pc = "iterate"
    /\ loops' = [loops EXCEPT ![c].threads[i].pc = "test"]
    /\ LoopFrame

NextLoops ==
    \/ \E c \in Components : LoopStart(c)
    \/ \E c \in Components : LoopStop(c)
    \/ \E c \in Components : LoopJoinReturns(c)
    \/ \E c \in Components, i \in LoopThreads : LoopTest(c, i)
    \/ \E c \in Components, i \in LoopThreads : LoopIterate(c, i)

SpecLoops == Init /\ [][NextLoops]_vars

\* C33: after stop() a loop thread performs no iteration beyond the one in
\* progress and ends, also when start() is called again before it has ended;
\* hence at most one loop thread per component is active at any time.
C33_StoppedLoopEnds ==
    /\ [](\A c \in Components : Cardinality(LiveThreads(c)) <= 1)
    /\ [][\A c \in Components, i \in LoopThreads :
            (loops[c].threads[i].pc = "test" /\ loops[c].threads[i].stopped)
            => loops'[c].threads[i].pc # "iterate"]_vars

\* The jobs a step of the timeout engine handles: those whose status the
\* step changes to timed_out or to the lower-case failed, the two values
\* only the timeout engine writes.
C34_Handled ==
    {id \in DOMAIN jobs \cap DOMAIN jobs' :
        /\ jobs'[id].status # jobs[id].status
        /\ jobs'[id].status \in {"timed_out", "failed"}}

\* The condition of the scan, written out: the job is running, has a
\* started_at, and has run for longer than the handler's default timeout
\* (no job row carries a timeout_seconds of its own).
C34_Overdue(id) ==
    /\ jobs[id].status = "running"
    /\ jobs[id].started_at # NoTime
    /\ now - jobs[id].started_at > DefaultTimeout

\* A step of the timeout engine.
C34_IsScanStep == C34_Handled # {}

C35_Result == resultsChan[Len(resultsChan)]

\* C35: processing one Complete result for a job of campaign C stores the
\* result under its job_id, increases C.completed_jobs by exactly 1 and
\* leaves C.failed_jobs unchanged; a Failed result does the same for
\* failed_jobs; the counters of every other campaign are unchanged.
C35_OneResultOneIncrement ==
    [][(/\ IsProcessResultStep
        /\ C35_Result.job_id \in DOMAIN jobs
        /\ C35_Result.campaign_id = jobs[C35_Result.job_id].campaign_id
        /\ C35_Result.campaign_id \in DOMAIN campaigns)
       => LET result == C35_Result
              c == result.campaign_id
          IN /\ result.job_id \in DOMAIN results'
             /\ results'[result.job_id] = result
             /\ DOMAIN campaigns' = DOMAIN campaigns
             /\ result.status = "Complete"
                => /\ campaigns'[c].completed_jobs = campaigns[c].completed_jobs + 1
                   /\ campaigns'[c].failed_jobs = campaigns[c].failed_jobs
             /\ result.status = "Failed"
                => /\ campaigns'[c].failed_jobs = campaigns[c].failed_jobs + 1
                   /\ campaigns'[c].completed_jobs = campaigns[c].completed_jobs
             /\ \A d \in DOMAIN campaigns \ {c} :
                   /\ campaigns'[d].completed_jobs = campaigns[d].completed_jobs
                   /\ campaigns'[d].failed_jobs = campaigns[d].failed_jobs]_vars

\* Two campaigns, each with a stored result of one of its jobs, one
\* Complete and one Failed, and each counted on its own campaign.
C35_Witness ==
    \E c, d \in DOMAIN campaigns :
        /\ c # d
        /\ campaigns[c].completed_jobs = 1 /\ campaigns[c].failed_jobs = 0
        /\ campaigns[d].failed_jobs = 1 /\ campaigns[d].completed_jobs = 0
        /\ \E id \in DOMAIN results :
              results[id].campaign_id = c /\ results[id].status = "Complete"
        /\ \E id \in DOMAIN results :
              results[id].campaign_id = d /\ results[id].status = "Failed"

\* C36: every job whose status was set to a terminal value, by the result
\* processor from a Complete or Failed result or by the timeout engine at
\* max attempts, has completed_at set, and every job set to running has
\* started_at set.
C36_StatusStamped ==
    \A id \in DOMAIN jobs :
        /\ jobs[id].status \in TerminalJobStatus => jobs[id].completed_at # NoTime
        /\ jobs[id].status = "running" => jobs[id].started_at # NoTime

\* A step in which POST /reset answers 200.
C37_IsResetStep == response'.op = "reset" /\ response' # response

\* C37: after POST /reset has returned 200 the store holds no workers,
\* campaigns, jobs or results, and the persisted snapshot no longer contains
\* the previous state: an orchestrator restarted right after loads an empty
\* store.
C37_ResetClearsStoreAndSnapshot ==
    [][(C37_IsResetStep /\ response'.code = 200)
       => /\ workers' = <<>> /\ campaigns' = <<>>
          /\ jobs' = <<>> /\ results' = <<>>
          /\ load_document(disk').workers = <<>>
          /\ load_document(disk').campaigns = <<>>
          /\ load_document(disk').jobs = <<>>
          /\ load_document(disk').results = <<>>]_vars

\* C38: whenever the timeout engine records a retry for a timed-out job,
\* that job_id is pushed onto a job queue in the same handling step: a retry
\* attempt is never consumed while the job is left in no queue.
C38_RetryRecordedMeansRequeued ==
    [][\A id \in JobIds :
          HistoryLen(retry_history', id) > HistoryLen(retry_history, id)
          => \E q \in QueueNames :
                /\ Len(queues'[q]) = Len(queues[q]) + 1
                /\ queues'[q][1] = id]_vars

\* C39: a heartbeat for a worker that is not faulty never changes that
\* worker's status, under any interleaving with the health monitor and
\* PUT /workers/{id}/status: the write of a handler that read a status other
\* than faulty leaves the status the store holds at that moment.
C39_HeartbeatKeepsStatus ==
    [][\A h \in Handlers :
          (/\ threads[h].pc = "heartbeat"
           /\ threads'[h].pc = "idle"
           /\ threads[h].current_status # "faulty")
          => workers'[threads[h].worker_id].status
               = workers[threads[h].worker_id].status]_vars

\* C40: the result processor increments a campaign's counters only for a
\* result whose job_id names a job that exists in the store and belongs to
\* that campaign; a result for an unknown job_id, or one carrying a
\* campaign_id other than its job's campaign, changes no campaign counter
\* and no campaign status.
C40_OnlyResultsOfOwnJobsCount ==
    [][(/\ IsProcessResultStep
        /\ \/ C35_Result.job_id \notin DOMAIN jobs
           \/ jobs[C35_Result.job_id].campaign_id # C35_Result.campaign_id)
       => campaigns' = campaigns]_vars

TypeOK ==
    /\ now \in 1..MaxTime
    /\ DOMAIN workers \subseteq Workers \cup RandomIds
    /\ \A w \in DOMAIN workers : workers[w].status \in WORKER_STATUS_VALUES
    /\ DOMAIN jobs \subseteq JobIds
====
